---- MODULE Spec2Model ----
(***************************************************************************)
(* A model of app.py: the response interpreter (cohere_text_generate), the *)
(* image guard (gemini_image_generate), the outline resolver               *)
(* (generate_slide_outline, extract_json), the Markdown renderer           *)
(* (convert_outline_to_md), the remote deck renderer (create_google_slides)*)
(* and the flow of main.                                                   *)
(*                                                                         *)
(* A text (a Python str or bytes) is a sequence of lexemes.  A lexeme is a *)
(* pair <<kind, payload>>:                                                 *)
(*   <<"p", c>>       one of the JSON punctuation characters { } [ ] , :   *)
(*   <<"s", text>>    a JSON string literal whose content is `text`        *)
(*   <<"n", d>>       a JSON number                                        *)
(*   <<"w", word>>    a bare word (commentary, a code fence, ...)          *)
(*   <<"ws", " ">>    a run of whitespace                                  *)
(*   <<"tag", name>>  an HTML tag such as <p>                              *)
(*   <<"doctype", v>> an HTML doctype declaration, v its spelling          *)
(*   <<"bin", b>>     a chunk of binary image data                         *)
(* A decoded JSON (Python) value is a pair <<type, content>>:              *)
(*   <<"str", text>>, <<"num", d>>, <<"list", items>>,                      *)
(*   <<"dict", members>> with members a sequence of <<key text, value>>    *)
(*   in insertion order, and <<"none", "">> for None.                      *)
(***************************************************************************)
EXTENDS Integers, Sequences, FiniteSets, TLC

\* ------------------------------------------------------------- lexemes

LBrace == <<"p", "{">>
RBrace == <<"p", "}">>
LBrack == <<"p", "[">>
RBrack == <<"p", "]">>
Comma == <<"p", ",">>
Colon == <<"p", ":">>
Ws == <<"ws", " ">>
W(word) == <<"w", word>>
StrLit(text) == <<"s", text>>
\* The text of a one-word string such as "title".
T(word) == << W(word) >>

IsWs(x) == x[1] = "ws"
IsPunct(x, c) == x[1] = "p" /\ x[2] = c

\* ------------------------------------------------------ Python values

PyNone == <<"none", "">>
VStr(text) == <<"str", text>>
VNum(d) == <<"num", d>>
VList(items) == <<"list", items>>
VDict(members) == <<"dict", members>>

IsDict(v) == v[1] = "dict"
IsList(v) == v[1] = "list"
IsStr(v) == v[1] = "str"

\* bool(v): None, "", 0, [] and {} are falsy.
Truthy(v) ==
  CASE v[1] = "none" -> FALSE
    [] v[1] = "str" -> Len(v[2]) > 0
    [] v[1] = "num" -> v[2] # "0"
    [] OTHER -> Len(v[2]) > 0

\* key in d
HasKey(d, key) == \E i \in 1..Len(d[2]) : d[2][i][1] = key

\* d.get(key, default)
DictGet(d, key, default) ==
  IF HasKey(d, key)
  THEN d[2][CHOOSE i \in 1..Len(d[2]) : d[2][i][1] = key][2]
  ELSE default

\* d[key] = val on the member list: a repeated key keeps its place and takes
\* the later value.
DictPut(members, key, val) ==
  IF \E i \in 1..Len(members) : members[i][1] = key
  THEN [i \in 1..Len(members) |->
          IF members[i][1] = key THEN <<key, val>> ELSE members[i]]
  ELSE Append(members, <<key, val>>)

\* s.strip()
RECURSIVE LStrip(_)
LStrip(text) ==
  IF Len(text) > 0 /\ IsWs(text[1]) THEN LStrip(Tail(text)) ELSE text

RECURSIVE RStrip(_)
RStrip(text) ==
  IF Len(text) > 0 /\ IsWs(text[Len(text)])
  THEN RStrip(SubSeq(text, 1, Len(text) - 1))
  ELSE text

Strip(text) == RStrip(LStrip(text))

\* ------------------------------------------------------- json.loads

ParseFail == [ok |-> FALSE, val |-> PyNone, pos |-> 0]
ParseOk(v, p) == [ok |-> TRUE, val |-> v, pos |-> p]

RECURSIVE ParseValue(_, _)
RECURSIVE ParseItems(_, _, _)
RECURSIVE ParseMembers(_, _, _)

\* One JSON value starting at lexeme i of t (t holds no whitespace).
ParseValue(t, i) ==
  IF i > Len(t) THEN ParseFail
  ELSE LET x == t[i] IN
    CASE x[1] = "s" -> ParseOk(VStr(x[2]), i + 1)
      [] x[1] = "n" -> ParseOk(VNum(x[2]), i + 1)
      [] IsPunct(x, "[") ->
           IF i + 1 <= Len(t) /\ IsPunct(t[i + 1], "]")
           THEN ParseOk(VList(<<>>), i + 2)
           ELSE ParseItems(t, i + 1, <<>>)
      [] IsPunct(x, "{") ->
           IF i + 1 <= Len(t) /\ IsPunct(t[i + 1], "}")
           THEN ParseOk(VDict(<<>>), i + 2)
           ELSE ParseMembers(t, i + 1, <<>>)
      [] OTHER -> ParseFail

\* value ("," value)* "]"
ParseItems(t, i, acc) ==
  LET r == ParseValue(t, i) IN
  IF ~r.ok \/ r.pos > Len(t) THEN ParseFail
  ELSE IF IsPunct(t[r.pos], ",") THEN ParseItems(t, r.pos + 1, Append(acc, r.val))
  ELSE IF IsPunct(t[r.pos], "]") THEN ParseOk(VList(Append(acc, r.val)), r.pos + 1)
  ELSE ParseFail

\* string ":" value ("," string ":" value)* "}"
ParseMembers(t, i, acc) ==
  IF i + 1 > Len(t) \/ t[i][1] # "s" \/ ~IsPunct(t[i + 1], ":") THEN ParseFail
  ELSE LET r == ParseValue(t, i + 2) IN
    IF ~r.ok \/ r.pos > Len(t) THEN ParseFail
    ELSE IF IsPunct(t[r.pos], ",")
      THEN ParseMembers(t, r.pos + 1, DictPut(acc, t[i][2], r.val))
    ELSE IF IsPunct(t[r.pos], "}")
      THEN ParseOk(VDict(DictPut(acc, t[i][2], r.val)), r.pos + 1)
    ELSE ParseFail

NoWs(text) == SelectSeq(text, LAMBDA x : ~IsWs(x))

\* json.loads(text): [ok, val]; ok = FALSE is json.JSONDecodeError.  Whitespace
\* between lexemes is skipped; anything after the value is "Extra data".
JsonLoads(text) ==
  LET t == NoWs(text)
      r == ParseValue(t, 1)
  IN IF r.ok /\ r.pos = Len(t) + 1
     THEN [ok |-> TRUE, val |-> r.val]
     ELSE [ok |-> FALSE, val |-> PyNone]

\* json.dumps, used to build the texts a provider may return.
RECURSIVE Serialize(_)
RECURSIVE SerializeItems(_, _)
RECURSIVE SerializeMembers(_, _)

Serialize(v) ==
  CASE v[1] = "str" -> << StrLit(v[2]) >>
    [] v[1] = "num" -> << <<"n", v[2]>> >>
    [] v[1] = "list" -> <<LBrack>> \o SerializeItems(v[2], 1) \o <<RBrack>>
    [] v[1] = "dict" -> <<LBrace>> \o SerializeMembers(v[2], 1) \o <<RBrace>>
    [] OTHER -> << W("null") >>

SerializeItems(items, i) ==
  IF i > Len(items) THEN <<>>
  ELSE (IF i > 1 THEN <<Comma>> ELSE <<>>)
       \o Serialize(items[i]) \o SerializeItems(items, i + 1)

SerializeMembers(members, i) ==
  IF i > Len(members) THEN <<>>
  ELSE (IF i > 1 THEN <<Comma>> ELSE <<>>)
       \o << StrLit(members[i][1]), Colon >> \o Serialize(members[i][2])
       \o SerializeMembers(members, i + 1)

\* ------------------------------------------------------- extract_json

\* re.search(open + '.*' + close, text, re.DOTALL): the leftmost match starts at
\* the first `open`, and the greedy .* runs to the last `close` after it.
NoMatch == [found |-> FALSE, group |-> <<>>]

RegexSearch(text, open, close) ==
  LET opens == {i \in 1..Len(text) : IsPunct(text[i], open)}
      closes == {j \in 1..Len(text) : IsPunct(text[j], close)}
  IN IF opens = {} \/ closes = {} THEN NoMatch
     ELSE LET i == CHOOSE a \in opens : \A b \in opens : a <= b
              j == CHOOSE a \in closes : \A b \in closes : a >= b
          IN IF i < j THEN [found |-> TRUE, group |-> SubSeq(text, i, j)]
             ELSE NoMatch

\* extract_json(text): [ok, val]; ok = FALSE is the ValueError of line 48.
extract_json(text) ==
  LET obj_match == RegexSearch(text, "{", "}")
      arr_match == RegexSearch(text, "[", "]")
      obj == JsonLoads(obj_match.group)
      arr == JsonLoads(arr_match.group)
  IN IF obj_match.found /\ obj.ok THEN obj
     ELSE IF arr_match.found /\ arr.ok THEN arr
     ELSE [ok |-> FALSE, val |-> PyNone]

\* ------------------------------------------------ convert_outline_to_md

\* for x in v: a list yields its items, a dict its keys, a str its
\* characters; anything else raises TypeError (ok = FALSE).
Iterate(v) ==
  CASE v[1] = "list" -> [ok |-> TRUE, items |-> v[2]]
    [] v[1] = "dict" ->
         [ok |-> TRUE, items |-> [i \in 1..Len(v[2]) |-> VStr(v[2][i][1])]]
    [] v[1] = "str" ->
         [ok |-> TRUE, items |-> [i \in 1..Len(v[2]) |-> VStr(<< v[2][i] >>)]]
    [] OTHER -> [ok |-> FALSE, items |-> <<>>]

\* str(v) as an f-string or map(str, ...) formats it.
Format(v) == IF IsStr(v) THEN v[2] ELSE Serialize(v)

RECURSIVE JoinTexts(_, _)
\* ', '.join(texts)
JoinTexts(texts, i) ==
  IF i > Len(texts) THEN <<>>
  ELSE (IF i > 1 THEN <<Comma, Ws>> ELSE <<>>) \o texts[i] \o JoinTexts(texts, i + 1)

UntitledSlide == VStr(<< W("Untitled"), Ws, W("Slide") >>)
EmptyStr == VStr(<<>>)

MdLine(kind, idx, text) == [kind |-> kind, idx |-> idx, text |-> text]
SeparatorRule == MdLine("rule", 0, <<>>)

\* Lines 209-217: the chart block of one slide; ok = FALSE when chart.get,
\* ', '.join(labels) or map(str, values) raises.
ChartBlock(chart) ==
  IF ~IsDict(chart) THEN [ok |-> FALSE, lines |-> <<>>]
  ELSE
    LET labels == DictGet(chart, T("labels"), VList(<<>>))
        values == DictGet(chart, T("values"), VList(<<>>))
        head == << MdLine("chart_details", 0, <<>>),
                   MdLine("chart_type", 0, Format(DictGet(chart, T("type"), EmptyStr))),
                   MdLine("chart_title", 0, Format(DictGet(chart, T("title"), EmptyStr))) >>
    IN IF Truthy(labels) /\ Truthy(values)
       THEN LET ls == Iterate(labels)
                vs == Iterate(values)
            IN IF ls.ok /\ vs.ok /\ \A i \in 1..Len(ls.items) : IsStr(ls.items[i])
               THEN [ok |-> TRUE,
                     lines |-> head \o
                       << MdLine("chart_labels", 0,
                            JoinTexts([i \in 1..Len(ls.items) |-> ls.items[i][2]], 1)),
                          MdLine("chart_values", 0,
                            JoinTexts([i \in 1..Len(vs.items) |-> Format(vs.items[i])], 1)) >>]
               ELSE [ok |-> FALSE, lines |-> <<>>]
       ELSE [ok |-> TRUE, lines |-> head]

\* Lines 201-218: the section of slide number idx; ok = FALSE when slide.get
\* raises AttributeError (slide is no dict) or the chart block raises.
SlideSection(idx, slide) ==
  IF ~IsDict(slide) THEN [ok |-> FALSE, lines |-> <<>>]
  ELSE
    LET title == DictGet(slide, T("title"), UntitledSlide)
        content == DictGet(slide, T("content"), EmptyStr)
        image == IF HasKey(slide, T("image_prompt"))
                 THEN << MdLine("image_prompt", 0,
                           Format(DictGet(slide, T("image_prompt"), PyNone))) >>
                 ELSE <<>>
        chart == IF HasKey(slide, T("chart"))
                 THEN ChartBlock(DictGet(slide, T("chart"), PyNone))
                 ELSE [ok |-> TRUE, lines |-> <<>>]
    IN IF ~chart.ok THEN [ok |-> FALSE, lines |-> <<>>]
       ELSE [ok |-> TRUE,
             lines |-> << MdLine("heading", idx, Format(title)),
                          MdLine("content", 0, Format(content)) >>
                       \o image \o chart.lines \o << SeparatorRule >>]

\* enumerate(slides, start=1)
FirstIndex == 1

RECURSIVE MdFromZeroBased(_, _)
\* The loop with enumerate(slides), which counts from 0.
MdFromZeroBased(items, i) ==
  IF i > Len(items) THEN [ok |-> TRUE, md |-> <<>>]
  ELSE LET s == SlideSection(i - 1, items[i])
           rest == MdFromZeroBased(items, i + 1)
       IN IF s.ok /\ rest.ok THEN [ok |-> TRUE, md |-> s.lines \o rest.md]
          ELSE [ok |-> FALSE, md |-> <<>>]

RECURSIVE MdFrom(_, _)
\* Lines 200-218: the loop over the slides from the i-th on.
MdFrom(items, i) ==
  IF i > Len(items) THEN [ok |-> TRUE, md |-> <<>>]
  ELSE LET s == SlideSection(FirstIndex + i - 1, items[i])
           rest == MdFrom(items, i + 1)
       IN IF s.ok /\ rest.ok THEN [ok |-> TRUE, md |-> s.lines \o rest.md]
          ELSE [ok |-> FALSE, md |-> <<>>]

\* convert_outline_to_md(slides): [ok, md]; ok = FALSE is the exception the
\* function raises (TypeError, AttributeError), md the lines of the document.
convert_outline_to_md(slides) ==
  LET it == Iterate(slides)
  IN IF it.ok THEN MdFrom(it.items, 1) ELSE [ok |-> FALSE, md |-> <<>>]

\* ------------------------------------------------- create_google_slides

NoId == <<"", 0>>
\* The page a presentation holds when the service has created it.
DefaultPage == <<"p", 0>>

Req(op, objectId, pageObjectId, insertionIndex, text) ==
  [op |-> op, objectId |-> objectId, pageObjectId |-> pageObjectId,
   insertionIndex |-> insertionIndex, text |-> text]

\* "insertionIndex": "1" of the createSlide request.
SlideInsertionIndex == 1

\* The requests with each text inserted before its box is created.
requests_list_text_first(slide, u) ==
  LET slide_id == <<"slide_", u>>
      title_box_id == <<"title_", u + 1>>
      content_box_id == <<"content_", u + 2>>
  IN << Req("createSlide", slide_id, NoId, SlideInsertionIndex, PyNone),
        Req("insertText", title_box_id, NoId, 0, DictGet(slide, T("title"), UntitledSlide)),
        Req("createShape", title_box_id, slide_id, 0, PyNone),
        Req("insertText", content_box_id, NoId, 0, DictGet(slide, T("content"), EmptyStr)),
        Req("createShape", content_box_id, slide_id, 0, PyNone) >>

\* Lines 231-296: the requests of one slide, u the first of the three fresh
\* uuid4 values.
requests_list(slide, u) ==
  LET slide_id == <<"slide_", u>>
      title_box_id == <<"title_", u + 1>>
      content_box_id == <<"content_", u + 2>>
  IN << Req("createSlide", slide_id, NoId, SlideInsertionIndex, PyNone),
        Req("createShape", title_box_id, slide_id, 0, PyNone),
        Req("insertText", title_box_id, NoId, 0, DictGet(slide, T("title"), UntitledSlide)),
        Req("createShape", content_box_id, slide_id, 0, PyNone),
        Req("insertText", content_box_id, NoId, 0, DictGet(slide, T("content"), EmptyStr)) >>

\* The remote presentation: its pages in presentation order, and the text
\* boxes created on them.
NoPresentation == [pages |-> <<>>, boxes |-> <<>>]
NewPresentation == [pages |-> << DefaultPage >>, boxes |-> <<>>]

InsertAt(seq, idx, x) ==
  SubSeq(seq, 1, idx) \o << x >> \o SubSeq(seq, idx + 1, Len(seq))

PageIds(pres) == {pres.pages[i] : i \in 1..Len(pres.pages)}
BoxIds(pres) == {pres.boxes[i].id : i \in 1..Len(pres.boxes)}

\* One request against the presentation: [ok, pres].  The service rejects an
\* object id in use, an insertion index past the end, a shape on a page that
\* does not exist and text for a box that does not exist.
ApplyRequest(pres, r) ==
  CASE r.op = "createSlide" ->
         IF r.objectId \notin PageIds(pres) /\ r.insertionIndex <= Len(pres.pages)
         THEN [ok |-> TRUE,
               pres |-> [pres EXCEPT !.pages = InsertAt(@, r.insertionIndex, r.objectId)]]
         ELSE [ok |-> FALSE, pres |-> pres]
    [] r.op = "createShape" ->
         IF r.pageObjectId \in PageIds(pres) /\ r.objectId \notin BoxIds(pres)
         THEN [ok |-> TRUE,
               pres |-> [pres EXCEPT !.boxes =
                           Append(@, [id |-> r.objectId, page |-> r.pageObjectId,
                                      text |-> PyNone])]]
         ELSE [ok |-> FALSE, pres |-> pres]
    [] OTHER ->
         IF r.objectId \in BoxIds(pres)
         THEN [ok |-> TRUE,
               pres |-> [pres EXCEPT !.boxes =
                           [i \in 1..Len(pres.boxes) |->
                              IF pres.boxes[i].id = r.objectId
                              THEN [id |-> r.objectId, page |-> pres.boxes[i].page,
                                    text |-> r.text]
                              ELSE pres.boxes[i]]]]
         ELSE [ok |-> FALSE, pres |-> pres]

RECURSIVE ApplyBatch(_, _, _)
\* presentations().batchUpdate: the requests in order, all or nothing.
ApplyBatch(pres, reqs, i) ==
  IF i > Len(reqs) THEN [ok |-> TRUE, pres |-> pres]
  ELSE LET r == ApplyRequest(pres, reqs[i])
       IN IF r.ok THEN ApplyBatch(r.pres, reqs, i + 1)
          ELSE [ok |-> FALSE, pres |-> pres]

\* A call the program made to the slides service; slide is the position in
\* the deck of the slide the call was made for (0 for the create call).
ApiCall(call, slide, body) == [call |-> call, slide |-> slide, body |-> body]

\* ------------------------------------- cohere_text_generate (lines 70-97)

NL == <<"ws", "\n">>

\* The characters of a text, as far as the prefix tests read them: a doctype
\* declaration is its opening "<!doctype html" in the case it was written in,
\* whatever follows it, and ">".
RECURSIVE Chars(_)
Chars(text) ==
  IF text = <<>> THEN <<>>
  ELSE LET x == text[1]
           head ==
             CASE x[1] = "doctype" /\ x[2] = "html" -> <<"<!doctype html", ">">>
               [] x[1] = "doctype" /\ x[2] = "HTML" -> <<"<!DOCTYPE HTML", ">">>
               [] x[1] = "doctype" /\ x[2] = "public" ->
                    <<"<!DOCTYPE html", " PUBLIC \"-//W3C//DTD XHTML 1.0 Strict//EN\"", ">">>
               [] x[1] = "tag" -> <<"<", x[2], ">">>
               [] x[1] = "s" -> <<"\"">> \o Chars(x[2]) \o <<"\"">>
               [] OTHER -> << x[2] >>
       IN head \o Chars(Tail(text))

\* str.lower() on what Chars and the header values hold.
LowerAtom(a) ==
  CASE a = "<!DOCTYPE HTML" -> "<!doctype html"
    [] a = "<!DOCTYPE html" -> "<!doctype html"
    [] a = "Application/JSON" -> "application/json"
    [] a = "TEXT/HTML" -> "text/html"
    [] OTHER -> a

Lower(chars) == [i \in 1..Len(chars) |-> LowerAtom(chars[i])]

\* s.startswith(prefix)
StartsWith(chars, prefix) ==
  Len(chars) >= Len(prefix) /\ SubSeq(chars, 1, Len(prefix)) = prefix

\* part in header, for a media type
HeaderContains(header, part) == \E i \in 1..Len(header) : header[i] = part

\* The prefix of line 89.
TextDoctypePrefix == <<"<!doctype html">>
\* The prefix of line 119.
ImageDoctypePrefix == <<"<!doctype html", ">">>

\* The test of line 89 with the Content-Type left out of it.
ClassifyByDoctypeOnly(content_type, raw) ==
  IF HeaderContains(content_type, "application/json") THEN "json"
  ELSE IF StartsWith(Lower(Chars(raw)), TextDoctypePrefix) THEN "html"
  ELSE "plain"

\* Lines 76, 89 and 96: the branch taken for a lowercased Content-Type and the
\* stripped body.
Classify(content_type, raw) ==
  IF HeaderContains(content_type, "application/json") THEN "json"
  ELSE IF HeaderContains(content_type, "text/html")
          \/ StartsWith(Lower(Chars(raw)), TextDoctypePrefix) THEN "html"
  ELSE "plain"

IsMarkup(x) == x[1] \in {"tag", "doctype"}

RECURSIVE TextNodes(_, _)
\* The strings of the parsed document, each stripped, the empty ones dropped:
\* a string is a longest run of lexemes between two pieces of markup.
TextNodes(text, cur) ==
  LET flush == IF Strip(cur) = <<>> THEN <<>> ELSE << Strip(cur) >>
  IN IF text = <<>> THEN flush
     ELSE IF IsMarkup(text[1]) THEN flush \o TextNodes(Tail(text), <<>>)
     ELSE TextNodes(Tail(text), Append(cur, text[1]))

RECURSIVE JoinLines(_, _)
JoinLines(nodes, i) ==
  IF i > Len(nodes) THEN <<>>
  ELSE (IF i > 1 THEN <<NL>> ELSE <<>>) \o nodes[i] \o JoinLines(nodes, i + 1)

\* BeautifulSoup(text, "html.parser").get_text(separator="\n", strip=True)
GetText(text) == JoinLines(TextNodes(text, <<>>), 1)

Result(status, value) == [status |-> status, value |-> value]
NoResult == Result("", <<>>)

\* Lines 83-88: data["generations"][0]["text"].strip().
GeneratedText(data) ==
  IF ~IsDict(data) THEN Result("TypeError", <<>>)
  ELSE IF ~HasKey(data, T("generations")) THEN Result("MissingField", <<>>)
  ELSE
    LET g == DictGet(data, T("generations"), PyNone)
    IN IF g[1] \in {"num", "none"} THEN Result("TypeError", <<>>)
       ELSE IF IsDict(g) \/ Len(g[2]) = 0 THEN Result("MissingField", <<>>)
       ELSE
         LET first == Iterate(g).items[1]
         IN IF ~IsDict(first) THEN Result("TypeError", <<>>)
            ELSE IF ~HasKey(first, T("text")) THEN Result("MissingField", <<>>)
            ELSE LET text == DictGet(first, T("text"), PyNone)
                 IN IF IsStr(text) THEN Result("returned", Strip(text[2]))
                    ELSE Result("AttributeError", <<>>)

\* Lines 76-88: the JSON branch.
InterpretJson(body) ==
  LET r == JsonLoads(body)
  IN IF r.ok THEN GeneratedText(r.val) ELSE Result("MalformedJSON", body)

\* Lines 89-95: the HTML branch.
InterpretHtml(raw) ==
  LET parsed_text == GetText(raw)
  IN IF parsed_text = <<>> THEN Result("EmptyParsedHTML", <<>>)
     ELSE Result("returned", parsed_text)

\* ------------------------------------ gemini_image_generate (lines 118-124)

\* Line 119.
LooksLikeHtml(raw_data) ==
  StartsWith(Lower(Chars(Strip(raw_data))), ImageDoctypePrefix)

\* Lines 118-124.
InterpretImage(raw_data) ==
  IF LooksLikeHtml(raw_data) THEN Result("UnexpectedHTML", GetText(raw_data))
  ELSE Result("returned", raw_data)

\* ------------------------------------------------------------ bounds

\* The longest text drawn lexeme by lexeme.
MaxTextLen == 4
\* The longest deck a provider's text holds.
MaxSlides == 2
\* The longest HTML or image body drawn lexeme by lexeme.
MaxBodyLen == 3

\* ------------------------------------------- what the provider may return

Alphabet ==
  {LBrace, RBrace, LBrack, RBrack, Comma, Colon, StrLit(T("title")), W("x")}

ArbitraryTexts == UNION {[1..n -> Alphabet] : n \in 1..MaxTextLen}

OptMember(key, vals) == {<<>>} \cup {<< <<key, v>> >> : v \in vals}

ChartFull ==
  VDict(<< <<T("type"), VStr(T("bar"))>>,
           <<T("title"), VStr(T("Sales"))>>,
           <<T("labels"), VList(<< VStr(T("Q1")), VStr(T("Q2")) >>)>>,
           <<T("values"), VList(<< VNum("10"), VNum("20") >>)>> >>)
ChartBare == VDict(<< <<T("type"), VStr(T("line"))>> >>)

SlideRecords ==
  {VDict(a \o b \o c \o d) :
     a \in OptMember(T("title"), {VStr(T("A"))}),
     b \in OptMember(T("content"), {VStr(T("c"))}),
     c \in OptMember(T("image_prompt"), {VStr(T("p"))}),
     d \in OptMember(T("chart"), {ChartFull, ChartBare})}

Decks == {VList(items) : items \in UNION {[1..n -> SlideRecords] : n \in 1..MaxSlides}}

\* How a provider wraps the JSON it was asked for: bare, padded with
\* whitespace, or in commentary and code fences.
Wrappings ==
  {<< <<>>, <<>> >>,
   << <<Ws>>, <<Ws>> >>,
   << <<W("Here"), Ws, W("is"), Ws, W("your"), Ws, W("deck"), Colon, Ws, W("fence")>>,
      <<Ws, W("fence")>> >>}

DeckTexts == {w[1] \o Serialize(deck) \o w[2] : w \in Wrappings, deck \in Decks}

OutlineTexts == ArbitraryTexts \cup DeckTexts \cup {<<>>}

\* ------------------------------------------ the responses of the providers

ContentTypes ==
  {<<>>,
   <<"application/json">>,
   <<"Application/JSON", "; charset=utf-8">>,
   <<"text/html">>,
   <<"TEXT/HTML", "; charset=utf-8">>,
   <<"text/plain">>,
   <<"image/png">>,
   <<"application/json", ", ", "text/html">>}

HtmlAlphabet ==
  {<<"doctype", "html">>, <<"doctype", "public">>, <<"tag", "p">>, Ws, W("Error")}

HtmlBodies == UNION {[1..n -> HtmlAlphabet] : n \in 1..MaxBodyLen}

Hello == << W("Hello") >>

TextFields ==
  {VStr(<<>>), VStr(<<Ws>>), VStr(Hello), VStr(<<Ws>> \o Hello \o <<Ws>>), VNum("1")}

JsonDocuments ==
  {VDict(<< <<T("generations"), VList(<< VDict(<< <<T("text"), t>> >>) >>)>> >>) :
     t \in TextFields}
  \cup {VDict(<< <<T("generations"), g>> >>) :
          g \in {VList(<<>>), VList(<< VDict(<<>>) >>), VDict(<<>>), VStr(Hello), VNum("1")}}
  \cup {VDict(<<>>), VList(<<>>), VStr(Hello)}

JsonBodies ==
  {Serialize(d) : d \in JsonDocuments}
  \cup {<<Ws>> \o Serialize(d) \o <<NL>> : d \in JsonDocuments}
  \cup {<<LBrace>>, Hello}

Response(content_type, body) == [content_type |-> content_type, body |-> body]
NoResponse == Response(<<>>, <<>>)

TextResponses == {Response(ct, b) : ct \in ContentTypes, b \in HtmlBodies \cup JsonBodies}

ImageAlphabet ==
  {<<"doctype", "html">>, <<"doctype", "HTML">>, <<"doctype", "public">>,
   <<"tag", "p">>, Ws, <<"bin", "png">>}

ImageBodies == UNION {[1..n -> ImageAlphabet] : n \in 1..MaxBodyLen}

ImageResponses ==
  {Response(ct, b) : ct \in {<<>>, <<"image/png">>, <<"text/html">>}, b \in ImageBodies}

\* -------------------------------------------------------------- state

VARIABLES
  pc,             \* where main is
  outline_text,   \* generate_slide_outline: what cohere_text_generate returned
  slides,         \* generate_slide_outline: the decoded outline, or None
  slides_outline, \* main: the first component of the resolver's result
  raw_outline,    \* main: the second component of the resolver's result
  md_output,      \* main: the Markdown document
  ui,             \* what main has shown: the st.* calls, in order
  outcome,        \* how the run ended ("" while it runs)
  presentation,   \* the remote presentation
  calls,          \* the calls made to the slides service, in order
  slide_idx,      \* create_google_slides: the position in the deck of the loop
  next_uuid,      \* the next uuid4 value
  response,       \* the provider's HTTP response: Content-Type and body
  raw_text,       \* cohere_text_generate: response.text.strip()
  parsed_as,      \* cohere_text_generate: the branch taken: json, html or plain
  result          \* what the interpreting function returned or raised

vars == <<pc, outline_text, slides, slides_outline, raw_outline, md_output, ui,
          outcome, presentation, calls, slide_idx, next_uuid,
          response, raw_text, parsed_as, result>>

mainVars == <<outline_text, slides, slides_outline, raw_outline, md_output, ui,
              outcome, presentation, calls, slide_idx, next_uuid>>
interpVars == <<response, raw_text, parsed_as, result>>

resolverVars == <<outline_text, slides, slides_outline, raw_outline>>
remoteVars == <<presentation, calls, slide_idx, next_uuid>>

Idle ==
  /\ outline_text = <<>>
  /\ slides = PyNone
  /\ slides_outline = PyNone
  /\ raw_outline = <<>>
  /\ md_output = <<>>
  /\ ui = <<>>
  /\ outcome = ""
  /\ presentation = NoPresentation
  /\ calls = <<>>
  /\ slide_idx = 0
  /\ next_uuid = 1
  /\ response = NoResponse
  /\ raw_text = <<>>
  /\ parsed_as = ""
  /\ result = NoResult

Init == pc = "start" /\ Idle

Show(kind) == ui' = Append(ui, kind)

\* Lines 328-330 and 341-343: main's except clauses; an exception no clause
\* catches ends the run as "crashed".
Finish(how) == pc' = "done" /\ outcome' = how

\* Line 180: cohere_text_generate returns a text, or raises (lines 62-94) and
\* main reports it.
CallTextGeneration ==
  /\ pc = "start"
  /\ \/ /\ \E t \in OutlineTexts : outline_text' = t
        /\ pc' = "check_empty"
        /\ UNCHANGED <<ui, outcome>>
     \/ /\ Finish("outline_failed")
        /\ Show("error: failed to generate slide outline")
        /\ UNCHANGED outline_text
  /\ UNCHANGED <<slides, slides_outline, raw_outline, md_output, remoteVars, interpVars>>

\* Lines 181-183.
CheckEmpty ==
  /\ pc = "check_empty"
  /\ IF outline_text = <<>>
     THEN /\ Finish("outline_failed")
          /\ Show("error: failed to generate slide outline")
     ELSE /\ pc' = "decode"
          /\ UNCHANGED <<ui, outcome>>
  /\ UNCHANGED <<resolverVars, md_output, remoteVars, interpVars>>

\* Lines 184-188: json.loads(outline_text).
DirectDecode ==
  /\ pc = "decode"
  /\ LET r == JsonLoads(outline_text)
     IN IF r.ok
        THEN /\ slides' = r.val
             /\ pc' = "return"
             /\ UNCHANGED ui
        ELSE /\ pc' = "fallback"
             /\ Show("error: parsing problem")
             /\ UNCHANGED slides
  /\ UNCHANGED <<outline_text, slides_outline, raw_outline, md_output, outcome, remoteVars, interpVars>>

\* The fallback without the except clause of lines 192-194.
FallbackResultPropagates(text) ==
  LET r == extract_json(text)
  IN [raised |-> ~r.ok, slides |-> r.val]

\* Lines 189-194: the regex fallback; its ValueError is caught.
FallbackResult(text) ==
  LET r == extract_json(text)
  IN IF r.ok THEN [raised |-> FALSE, slides |-> r.val]
     ELSE [raised |-> FALSE, slides |-> PyNone]

Fallback ==
  /\ pc = "fallback"
  /\ LET r == FallbackResult(outline_text)
     IN IF r.raised
        THEN /\ Finish("outline_failed")
             /\ Show("error: failed to generate slide outline")
             /\ UNCHANGED slides
        ELSE /\ slides' = r.slides
             /\ pc' = "return"
             /\ Show(IF r.slides = PyNone THEN "error: failed to extract"
                     ELSE "warning: regex fallback")
             /\ UNCHANGED outcome
  /\ UNCHANGED <<outline_text, slides_outline, raw_outline, md_output, remoteVars, interpVars>>

\* Lines 195 and 327: return slides, outline_text.
ReturnOutline ==
  /\ pc = "return"
  /\ slides_outline' = slides
  /\ raw_outline' = outline_text
  /\ pc' = "branch"
  /\ UNCHANGED <<outline_text, slides, md_output, ui, outcome, remoteVars, interpVars>>

\* Lines 331-335: the outline is truthy; convert_outline_to_md is called
\* outside any try.
RenderMarkdown ==
  /\ pc = "branch"
  /\ Truthy(slides_outline)
  /\ LET r == convert_outline_to_md(slides_outline)
     IN IF r.ok
        THEN /\ md_output' = r.md
             /\ ui' = ui \o <<"success: outline parsed", "markdown: outline">>
             /\ pc' = "create"
             /\ UNCHANGED outcome
        ELSE /\ Finish("crashed")
             /\ Show("success: outline parsed")
             /\ UNCHANGED md_output
  /\ UNCHANGED <<resolverVars, remoteVars, interpVars>>

\* Lines 346-349.
ShowRaw ==
  /\ pc = "branch"
  /\ ~Truthy(slides_outline)
  /\ Finish("raw_displayed")
  /\ ui' = ui \o <<"warning: using raw output", "markdown: raw outline">>
  /\ UNCHANGED <<resolverVars, md_output, remoteVars, interpVars>>

\* Lines 224-228: presentations().create(...).execute() succeeds or raises.
CreatePresentation ==
  /\ pc = "create"
  /\ calls' = Append(calls, ApiCall("create", 0, <<>>))
  /\ \/ /\ presentation' = NewPresentation
        /\ slide_idx' = 1
        /\ pc' = "loop"
        /\ UNCHANGED <<ui, outcome>>
     \/ /\ Finish("slides_failed")
        /\ Show("error: failed to create presentation")
        /\ UNCHANGED <<presentation, slide_idx>>
  /\ UNCHANGED <<resolverVars, md_output, next_uuid, interpVars>>

DeckItems == Iterate(slides_outline).items

\* Lines 230-299: one turn of the loop.  The batch is sent; it is applied, or
\* the service rejects it or the transport fails, and execute() raises.
AddSlide ==
  /\ pc = "loop"
  /\ slide_idx <= Len(DeckItems)
  /\ LET slide == DeckItems[slide_idx]
     IN IF ~IsDict(slide)
        THEN /\ Finish("slides_failed")
             /\ Show("error: failed to create presentation")
             /\ UNCHANGED remoteVars
        ELSE LET reqs == requests_list(slide, next_uuid)
                 r == ApplyBatch(presentation, reqs, 1)
             IN /\ calls' = Append(calls, ApiCall("batchUpdate", slide_idx, reqs))
                /\ next_uuid' = next_uuid + 3
                /\ \/ /\ r.ok
                      /\ presentation' = r.pres
                      /\ slide_idx' = slide_idx + 1
                      /\ UNCHANGED <<pc, ui, outcome>>
                   \/ /\ Finish("slides_failed")
                      /\ Show("error: failed to create presentation")
                      /\ UNCHANGED <<presentation, slide_idx>>
  /\ UNCHANGED <<resolverVars, md_output, interpVars>>

\* Lines 300 and 344-345.
ReturnPresentation ==
  /\ pc = "loop"
  /\ slide_idx > Len(DeckItems)
  /\ Finish("rendered")
  /\ ui' = ui \o <<"success: presentation created", "markdown: presentation url">>
  /\ UNCHANGED <<resolverVars, md_output, remoteVars, interpVars>>

Next ==
  \/ CallTextGeneration
  \/ CheckEmpty
  \/ DirectDecode
  \/ Fallback
  \/ ReturnOutline
  \/ RenderMarkdown
  \/ ShowRaw
  \/ CreatePresentation
  \/ AddSlide
  \/ ReturnPresentation

Spec == Init /\ [][Next]_vars


\* ------------------------------------------- cohere_text_generate, by steps

InitInterpreter == pc = "request" /\ Idle

\* Lines 62-68: the POST answers, or raises and the exception is re-raised.
PostPrompt ==
  /\ pc = "request"
  /\ \/ /\ \E r \in TextResponses : response' = r
        /\ pc' = "strip"
        /\ UNCHANGED result
     \/ /\ result' = Result("RequestFailed", <<>>)
        /\ pc' = "returned"
        /\ UNCHANGED response
  /\ UNCHANGED <<raw_text, parsed_as, mainVars>>

\* Lines 70-73.
StripBody ==
  /\ pc = "strip"
  /\ raw_text' = Strip(response.body)
  /\ IF Strip(response.body) = <<>>
     THEN result' = Result("EmptyResponse", <<>>) /\ pc' = "returned"
     ELSE pc' = "classify" /\ UNCHANGED result
  /\ UNCHANGED <<response, parsed_as, mainVars>>

Branch == Classify(Lower(response.content_type), raw_text)

\* Lines 76-88.
TakeJsonBranch ==
  /\ pc = "classify"
  /\ Branch = "json"
  /\ parsed_as' = "json"
  /\ result' = InterpretJson(response.body)
  /\ pc' = "returned"
  /\ UNCHANGED <<response, raw_text, mainVars>>

\* Lines 89-95.
TakeHtmlBranch ==
  /\ pc = "classify"
  /\ Branch = "html"
  /\ parsed_as' = "html"
  /\ result' = InterpretHtml(raw_text)
  /\ pc' = "returned"
  /\ UNCHANGED <<response, raw_text, mainVars>>

\* Lines 96-97.
TakePlainBranch ==
  /\ pc = "classify"
  /\ Branch = "plain"
  /\ parsed_as' = "plain"
  /\ result' = Result("returned", raw_text)
  /\ pc' = "returned"
  /\ UNCHANGED <<response, raw_text, mainVars>>

NextInterpreter ==
  \/ PostPrompt
  \/ StripBody
  \/ TakeJsonBranch
  \/ TakeHtmlBranch
  \/ TakePlainBranch

SpecInterpreter == InitInterpreter /\ [][NextInterpreter]_vars

\* ------------------------------------------ gemini_image_generate, by steps

InitImage == pc = "image_request" /\ Idle

\* Lines 110-116.
PostImagePrompt ==
  /\ pc = "image_request"
  /\ \/ /\ \E r \in ImageResponses : response' = r
        /\ pc' = "image_check"
        /\ UNCHANGED result
     \/ /\ result' = Result("RequestFailed", <<>>)
        /\ pc' = "image_returned"
        /\ UNCHANGED response
  /\ UNCHANGED <<raw_text, parsed_as, mainVars>>

\* Lines 118-124.
CheckImage ==
  /\ pc = "image_check"
  /\ result' = InterpretImage(response.body)
  /\ pc' = "image_returned"
  /\ UNCHANGED <<response, raw_text, parsed_as, mainVars>>

NextImage == PostImagePrompt \/ CheckImage

SpecImage == InitImage /\ [][NextImage]_vars

\* ------------------------------------------------------------- claims

\* main has the resolver's result.
Resolved == pc \in {"branch", "create", "loop"} \/ (pc = "done" /\ outcome # "outline_failed")

\* C1: for every non-empty outline text the resolver returns without raising;
\* the first component is None exactly when the direct decode and both regex
\* attempts fail, and the second component is the outline text unmodified.
C1_ResolverNeverRaises ==
  /\ outline_text # <<>> => outcome # "outline_failed"
  /\ Resolved =>
       /\ raw_outline = outline_text
       /\ (slides_outline = PyNone) <=>
            /\ ~JsonLoads(outline_text).ok
            /\ ~JsonLoads(RegexSearch(outline_text, "{", "}").group).ok
            /\ ~JsonLoads(RegexSearch(outline_text, "[", "]").group).ok

\* C1 witness: a non-empty text that no attempt decodes has come back as
\* (None, text).
C1_Witness ==
  /\ pc = "branch"
  /\ outline_text # <<>>
  /\ slides_outline = PyNone
  /\ RegexSearch(outline_text, "{", "}").found
  /\ RegexSearch(outline_text, "[", "]").found

IsRecordList(v) ==
  IsList(v) /\ Len(v[2]) >= 1 /\ \A i \in 1..Len(v[2]) : IsDict(v[2][i])

IsJsonPunct(x) == x[1] = "p" /\ x[2] \in {"{", "}", "[", "]"}

\* The text is a JSON array of slide records with non-JSON commentary (no
\* brace, no bracket, at least one word) around it.
WrapsRecordArray(text) ==
  LET m == RegexSearch(text, "[", "]")
      first == CHOOSE i \in 1..Len(text) : IsPunct(text[i], "[") /\
                 \A j \in 1..(i - 1) : ~IsPunct(text[j], "[")
      last == first + Len(m.group) - 1
  IN /\ m.found
     /\ JsonLoads(m.group).ok
     /\ IsRecordList(JsonLoads(m.group).val)
     /\ \A i \in 1..Len(text) : (i < first \/ i > last) => ~IsJsonPunct(text[i])
     /\ \E i \in 1..Len(text) : (i < first \/ i > last) /\ text[i][1] = "w"

\* C2: for a JSON array of slide records wrapped in commentary, the fallback
\* extraction returns exactly the embedded array.
C2_FallbackReturnsEmbeddedArray ==
  (Resolved /\ WrapsRecordArray(outline_text)) =>
     slides_outline = JsonLoads(RegexSearch(outline_text, "[", "]").group).val

\* C3: for a non-empty model output that is not valid JSON, the run does not end
\* in an exception that main does not handle.
C3_NoCrashOnInvalidJson ==
  (pc = "done" /\ outline_text # <<>> /\ ~JsonLoads(outline_text).ok) =>
     outcome # "crashed"

\* The batch sent for the slide at position i of the deck.
BatchesFor(i) == {k \in 1..Len(calls) : calls[k].call = "batchUpdate" /\ calls[k].slide = i}

CreatedSlideId(i) ==
  LET k == CHOOSE k \in BatchesFor(i) : TRUE
      reqs == calls[k].body
      j == CHOOSE j \in 1..Len(reqs) : reqs[j].op = "createSlide"
  IN reqs[j].objectId

PagePosition(id) == CHOOSE p \in 1..Len(presentation.pages) : presentation.pages[p] = id

\* C4: when create_google_slides has completed, the slides it created stand in
\* the presentation in the order of the deck.
C4_DeckOrderKept ==
  outcome = "rendered" =>
    \A i, j \in 1..Len(DeckItems) :
       i < j => PagePosition(CreatedSlideId(i)) < PagePosition(CreatedSlideId(j))

RECURSIVE Sections(_)
\* The document cut after each separator rule.
Sections(md) ==
  IF md = <<>> THEN <<>>
  ELSE IF \E k \in 1..Len(md) : md[k].kind = "rule"
  THEN LET k == CHOOSE k \in 1..Len(md) :
                  md[k].kind = "rule" /\ \A j \in 1..(k - 1) : md[j].kind # "rule"
       IN << SubSeq(md, 1, k) >> \o Sections(SubSeq(md, k + 1, Len(md)))
  ELSE << md >>

HasLine(section, kind) == \E k \in 1..Len(section) : section[k].kind = kind
CountLines(section, kind) == Cardinality({k \in 1..Len(section) : section[k].kind = kind})

\* A chart as section 3 of the spec describes it: labels are strings.
IsChartSpec(v) ==
  /\ IsDict(v)
  /\ LET labels == DictGet(v, T("labels"), VList(<<>>))
         values == DictGet(v, T("values"), VList(<<>>))
     IN /\ IsList(labels) /\ IsList(values)
        /\ \A i \in 1..Len(labels[2]) : IsStr(labels[2][i])

IsSlideDeck(v) ==
  /\ IsRecordList(v)
  /\ \A i \in 1..Len(v[2]) :
        HasKey(v[2][i], T("chart")) => IsChartSpec(DictGet(v[2][i], T("chart"), PyNone))

\* C8: for a deck of N slide records the Markdown holds exactly N sections in
\* deck order, section i headed "Slide i: <title>" (1-based, the title
\* defaulting to "Untitled Slide") and closed by exactly one separator rule, with
\* the image-prompt line iff slide i has an image_prompt key and the chart
\* block iff it has a chart key.
C8_MarkdownSections ==
  (IsSlideDeck(slides_outline) /\ (pc \in {"create", "loop"} \/ pc = "done")) =>
    /\ outcome # "crashed"
    /\ LET secs == Sections(md_output)
           N == Len(slides_outline[2])
       IN /\ Len(secs) = N
          /\ \A i \in 1..N :
               LET sec == secs[i]
                   slide == slides_outline[2][i]
               IN /\ sec[1] = MdLine("heading", i,
                                 Format(DictGet(slide, T("title"), UntitledSlide)))
                  /\ CountLines(sec, "heading") = 1
                  /\ CountLines(sec, "rule") = 1
                  /\ sec[Len(sec)].kind = "rule"
                  /\ HasLine(sec, "image_prompt") <=> HasKey(slide, T("image_prompt"))
                  /\ HasLine(sec, "chart_details") <=> HasKey(slide, T("chart"))

\* C8 witness: a two-slide deck has been rendered, slide 1 untitled with
\* neither image prompt nor chart, slide 2 with both.
C8_Witness ==
  /\ pc = "create"
  /\ IsSlideDeck(slides_outline)
  /\ Len(slides_outline[2]) = 2
  /\ ~HasKey(slides_outline[2][1], T("title"))
  /\ ~HasKey(slides_outline[2][1], T("chart"))
  /\ ~HasKey(slides_outline[2][1], T("image_prompt"))
  /\ HasKey(slides_outline[2][2], T("chart"))
  /\ HasKey(slides_outline[2][2], T("image_prompt"))
  /\ Len(md_output) > 0

\* C9: when the batch of one slide fails, a batch is still sent for every
\* other slide of the deck.
C9_FailureDoesNotAbortOthers ==
  (pc = "done" /\ outcome = "slides_failed" /\ Len(calls) >= 2) =>
     \A i \in 1..Len(DeckItems) : BatchesFor(i) # {}

\* The requests of one batch are in the order createSlide, createShape,
\* insertText, createShape, insertText; each shape is put on the slide created
\* earlier in the batch and each text into a box created earlier in the batch.
BatchWellFormed(reqs, slide) ==
  /\ [k \in 1..Len(reqs) |-> reqs[k].op] =
       <<"createSlide", "createShape", "insertText", "createShape", "insertText">>
  /\ \A k \in 1..Len(reqs) :
       /\ reqs[k].op = "createShape" =>
            \E j \in 1..(k - 1) :
               reqs[j].op = "createSlide" /\ reqs[j].objectId = reqs[k].pageObjectId
       /\ reqs[k].op = "insertText" =>
            \E j \in 1..(k - 1) :
               reqs[j].op = "createShape" /\ reqs[j].objectId = reqs[k].objectId
  /\ reqs[3].text = DictGet(slide, T("title"), UntitledSlide)
  /\ reqs[5].text = DictGet(slide, T("content"), EmptyStr)

\* C10: the calls are one create-presentation call, then one batch per slide
\* in deck order, never more; a completed run has made N batches for N slides;
\* every batch is well formed.
C10_OneBatchPerSlideInOrder ==
  /\ \A k \in 1..Len(calls) :
       IF k = 1 THEN calls[k].call = "create"
       ELSE /\ calls[k].call = "batchUpdate"
            /\ calls[k].slide = k - 1
            /\ k - 1 <= Len(DeckItems)
            /\ BatchWellFormed(calls[k].body, DeckItems[k - 1])
  /\ outcome = "rendered" => Len(calls) = Len(DeckItems) + 1

\* C10 witness: a two-slide deck has been rendered with three calls.
C10_Witness == outcome = "rendered" /\ Len(DeckItems) = 2 /\ Len(calls) = 3

\* The value at generations[0].text of a decoded body, None when it is absent.
GenerationsText(data) ==
  IF IsDict(data) /\ HasKey(data, T("generations"))
  THEN LET g == DictGet(data, T("generations"), PyNone)
       IN IF IsList(g) /\ Len(g[2]) > 0 /\ IsDict(g[2][1]) /\ HasKey(g[2][1], T("text"))
          THEN DictGet(g[2][1], T("text"), PyNone)
          ELSE PyNone
  ELSE PyNone

\* C5: a response classified as JSON that decodes fails whenever
\* generations[0].text is absent, empty or whitespace only (any raised error is
\* taken as the failure), and the function never returns an empty string for it.
C5_MissingFieldWhenAbsentOrBlank ==
  (pc = "returned" /\ parsed_as = "json" /\ JsonLoads(response.body).ok) =>
     LET text == GenerationsText(JsonLoads(response.body).val)
     IN /\ (text = PyNone \/ (IsStr(text) /\ Strip(text[2]) = <<>>)) =>
             result.status # "returned"
        /\ ~(result.status = "returned" /\ result.value = <<>>)

\* C6: a non-blank response whose Content-Type holds text/html and not
\* application/json is never decoded as JSON; the function returns the
\* non-empty visible text, free of markup, or fails with the empty-parsed-HTML
\* error.
C6_HtmlNeverDecodedAsJson ==
  (/\ pc = "returned"
   /\ result.status # "RequestFailed"
   /\ Strip(response.body) # <<>>
   /\ \E i \in 1..Len(response.content_type) :
         response.content_type[i] \in {"text/html", "TEXT/HTML"}
   /\ \A i \in 1..Len(response.content_type) :
         response.content_type[i] \notin {"application/json", "Application/JSON"}) =>
     /\ parsed_as = "html"
     /\ \/ result.status = "EmptyParsedHTML"
        \/ /\ result.status = "returned"
           /\ result.value # <<>>
           /\ \A k \in 1..Len(result.value) : ~IsMarkup(result.value[k])
           /\ ~IsWs(result.value[1])

\* C6 witness: an HTML error page without a doctype, sent as text/html, has come
\* back as its visible text.
C6_Witness ==
  /\ pc = "returned"
  /\ response.content_type = <<"TEXT/HTML", "; charset=utf-8">>
  /\ response.body = << <<"tag", "p">>, W("Error"), <<"tag", "p">> >>
  /\ result = Result("returned", << W("Error") >>)

\* C7: an image response whose body, after leading whitespace, begins (in any
\* case) with "<!doctype html" fails with the unexpected-HTML error whatever its
\* Content-Type; every other body is returned unchanged.
C7_DoctypeImageRejected ==
  (pc = "image_returned" /\ result.status # "RequestFailed") =>
     IF StartsWith(Lower(Chars(LStrip(response.body))), TextDoctypePrefix)
     THEN result.status = "UnexpectedHTML"
     ELSE result = Result("returned", response.body)
====
